---- MODULE Spec2Model ----
(***************************************************************************)
(* Model of the macros of diesel-autoincrement-new-struct (src/lib.rs).    *)
(*                                                                         *)
(* A struct declaration is kept at token level: its attribute list, its    *)
(* visibility, its name and the token sequence between the braces, where a *)
(* token is either one field (`#[meta]* vis name : ty`) or one comma.      *)
(* The same declaration is expanded twice, once by `diesel_new! { .. }`    *)
(* and once by `#[apply(NewInsertable!)]`, and the struct that diesel_new! *)
(* emitted is handed to diesel_new! a second time.                         *)
(***************************************************************************)
EXTENDS Integers, Sequences, FiniteSets, TLC

VARIABLES
    input,      \* the struct declaration as written in the source
    blockPc,    \* `diesel_new! { input }`: "diesel_new", "done" or "error"
    blockOut,   \* declarations emitted by the block invocation
    attrPc,     \* `#[apply(NewInsertable!)] input`: the macro to expand next
    attrItem,   \* the item (with its attributes) that macro receives
    attrOut,    \* declarations emitted by the attribute invocation
    againPc,    \* `diesel_new!` over the struct the block invocation emitted
    againOut    \* declarations emitted by that second invocation

vars == <<input, blockPc, blockOut, attrPc, attrItem, attrOut, againPc, againOut>>

----------------------------------------------------------------------------
(* Bounds of the inputs.                                                   *)

MaxFields == 3
MaxStructMeta == 2

----------------------------------------------------------------------------
(* Tokens.                                                                 *)

Comma == [kind |-> ","]

\* lib.rs:142,156: the identity field, here with an attribute, a visibility
\* and a type that no other field of the pool carries.
idField == [kind |-> "field", meta |-> <<"allow(dead_code)">>,
            vis |-> "pub(crate)", name |-> "id", ty |-> "i64"]

\* lib.rs:143: `pub name: String`, here with two attributes.
nameField == [kind |-> "field", meta |-> <<"doc", "serde(rename)">>,
              vis |-> "pub", name |-> "name", ty |-> "String"]

ageField == [kind |-> "field", meta |-> <<>>,
             vis |-> "", name |-> "age", ty |-> "i32"]

FieldPool == {idField, nameField, ageField}

IsField(t) == t.kind = "field"
IsComma(t) == t.kind = ","

\* Struct-level attributes a user writes (lib.rs:139-140), among them an
\* insertable derive of the user's own.
StructAttr == {"doc", "derive(Insertable)"}
StructVis == {"", "pub"}
StructNames == {"User", "SuperUser"}

\* The attribute diesel_new! adds (lib.rs:115).
InsertableMarker == "derive(diesel::Insertable)"

RECURSIVE SeqsOfLen(_, _)
SeqsOfLen(S, n) ==
    IF n = 0 THEN {<<>>}
    ELSE {Append(s, x) : s \in SeqsOfLen(S, n - 1), x \in S}

SeqsUpTo(S, n) == UNION {SeqsOfLen(S, k) : k \in 0..n}

\* The token sequences obtained by writing n fields, each followed by a comma
\* or not.
RECURSIVE WrittenBodies(_)
WrittenBodies(n) ==
    IF n = 0 THEN {<<>>}
    ELSE UNION {{b \o <<f>>, b \o <<f, Comma>>} :
                    b \in WrittenBodies(n - 1), f \in FieldPool}

Bodies == UNION {WrittenBodies(n) : n \in 0..MaxFields}

Inputs ==
    {[attrs |-> a, vis |-> v, name |-> n, body |-> b] :
        a \in SeqsUpTo(StructAttr, MaxStructMeta), v \in StructVis,
        n \in StructNames, b \in Bodies}

----------------------------------------------------------------------------
(* diesel_new!, lib.rs:99-124.                                             *)

\* lib.rs:107-110: `$( $(#[$field_meta])* $field_vis $field_name : $field_ty ),* $(,)?`
\* after the first repeated field has been matched: nothing, or a comma that
\* is either the trailing one or the separator before one more field.
RECURSIVE MatchMoreFields(_)
MatchMoreFields(s) ==
    \/ s = <<>>
    \/ /\ IsComma(s[1])
       /\ \/ Len(s) = 1
          \/ /\ IsField(s[2])
             /\ MatchMoreFields(SubSeq(s, 3, Len(s)))

\* lib.rs:107-110: the whole repetition.  A comma right after the comma of
\* the id field matches neither: `$field_vis:vis` may start at a comma, so
\* the matcher reports a local ambiguity against `$(,)?`.
MatchRemaining(s) ==
    \/ s = <<>>
    \/ /\ IsField(s[1])
       /\ MatchMoreFields(Tail(s))

\* MatchIdField with the literal `id` replaced by `$_id_name:ident`.
MatchIdField_anyIdent(body) ==
    /\ Len(body) >= 2
    /\ IsField(body[1])
    /\ IsComma(body[2])

\* lib.rs:104-105: `$(#[$_id_meta])* $_id_field_vis id : $_id_type ,`
MatchIdField(body) ==
    /\ Len(body) >= 2
    /\ IsField(body[1])
    /\ body[1].name = "id"
    /\ IsComma(body[2])

\* Matches with the id field looked up by name anywhere in the field list
\* instead of at the first position.
Matches_idAnywhere(item) ==
    \E i \in 1..Len(item.body) :
        /\ IsField(item.body[i])
        /\ item.body[i].name = "id"

\* lib.rs:100-112: the matcher of the single rule.
Matches(item) ==
    /\ MatchIdField(item.body)
    /\ MatchRemaining(SubSeq(item.body, 3, Len(item.body)))

\* CapturedFields with the id field caught by the repetition as well.
CapturedFields_keepId(item) ==
    SelectSeq(item.body, IsField)

\* lib.rs:108-109: the fields bound by the repetition, in order.
CapturedFields(item) ==
    SelectSeq(SubSeq(item.body, 3, Len(item.body)), IsField)

\* paste with a separator between the two identifiers.
paste_separator(prefix, ident) == prefix \o "_" \o ident

\* lib.rs:116: `[< New $StructName >]`, paste's concatenation of identifiers.
paste(prefix, ident) == prefix \o ident

\* EmitFields with `$(#[$field_meta])*` left out of the transcriber.
RECURSIVE EmitFields_dropMeta(_)
EmitFields_dropMeta(fs) ==
    IF fs = <<>> THEN <<>>
    ELSE <<[kind |-> "field", meta |-> <<>>, vis |-> fs[1].vis,
            name |-> fs[1].name, ty |-> fs[1].ty], Comma>>
         \o EmitFields_dropMeta(Tail(fs))

\* lib.rs:117-120: each captured field is written out followed by a comma.
RECURSIVE EmitFields(_)
EmitFields(fs) ==
    IF fs = <<>> THEN <<>>
    ELSE <<[kind |-> "field", meta |-> fs[1].meta, vis |-> fs[1].vis,
            name |-> fs[1].name, ty |-> fs[1].ty], Comma>>
         \o EmitFields(Tail(fs))

\* Transcribe with the derive written before `$(#[$struct_meta])*`.
Transcribe_markerFirst(item) ==
    [attrs |-> <<InsertableMarker>> \o item.attrs,
     vis   |-> item.vis,
     name  |-> paste("New", item.name),
     body  |-> EmitFields(CapturedFields(item))]

\* Transcribe with `$struct_vis` left out of the transcriber.
Transcribe_dropVis(item) ==
    [attrs |-> Append(item.attrs, InsertableMarker),
     vis   |-> "",
     name  |-> paste("New", item.name),
     body  |-> EmitFields(CapturedFields(item))]

\* lib.rs:113-122: the transcriber.
Transcribe(item) ==
    [attrs |-> Append(item.attrs, InsertableMarker),
     vis   |-> item.vis,
     name  |-> paste("New", item.name),
     body  |-> EmitFields(CapturedFields(item))]

\* diesel_new that also writes `$($item)*` back out before the new struct.
diesel_new_passthrough(item) ==
    IF Matches(item)
    THEN [ok |-> TRUE, decls |-> <<item, Transcribe(item)>>]
    ELSE [ok |-> FALSE, decls |-> <<>>]

\* lib.rs:99-124: the expansion of `diesel_new! { item }`: the declarations
\* it emits, or a compile error when no rule matches.
diesel_new(item) ==
    IF Matches(item)
    THEN [ok |-> TRUE, decls |-> <<Transcribe(item)>>]
    ELSE [ok |-> FALSE, decls |-> <<>>]

----------------------------------------------------------------------------
(* NewInsertable!, lib.rs:53-56, and the attributes it is used with.       *)

\* NewInsertable with a matcher that binds the struct but not its attributes.
NewInsertable_dropAttrs(item) ==
    [item EXCEPT !.attrs = <<"derive(diesel_new!)">>]

\* lib.rs:53-56: the item comes back with one attribute put in front.
NewInsertable(item) ==
    [item EXCEPT !.attrs = <<"derive(diesel_new!)">> \o @]

\* lib.rs:1, 151: `#[apply(m!)] item` hands the item, without the attribute
\* itself, to m!.
apply(item) == [item EXCEPT !.attrs = Tail(@)]

\* lib.rs:2, 54: `#[derive(m!)] item` emits the item, without the attribute
\* itself, and hands that same item to m!.
derive(item) == [item EXCEPT !.attrs = Tail(@)]

----------------------------------------------------------------------------
(* The state machine.                                                      *)

Init ==
    /\ input \in Inputs
    /\ blockPc = "diesel_new"
    /\ blockOut = <<>>
    /\ attrPc = "apply"
    /\ attrItem = [input EXCEPT !.attrs = <<"apply(NewInsertable!)">> \o @]
    /\ attrOut = <<>>
    /\ againPc = "idle"
    /\ againOut = <<>>

\* lib.rs:138-145: `diesel_new! { input }`.
BlockDieselNew ==
    /\ blockPc = "diesel_new"
    /\ LET r == diesel_new(input) IN
        /\ blockPc' = IF r.ok THEN "done" ELSE "error"
        /\ blockOut' = blockOut \o r.decls
    /\ UNCHANGED <<input, attrPc, attrItem, attrOut, againPc, againOut>>

\* lib.rs:151: `#[apply(NewInsertable!)]` becomes `NewInsertable! { item }`.
Apply ==
    /\ attrPc = "apply"
    /\ attrItem' = apply(attrItem)
    /\ attrPc' = "NewInsertable"
    /\ UNCHANGED <<input, blockPc, blockOut, attrOut, againPc, againOut>>

\* lib.rs:53-56.
ExpandNewInsertable ==
    /\ attrPc = "NewInsertable"
    /\ attrItem' = NewInsertable(attrItem)
    /\ attrPc' = "derive"
    /\ UNCHANGED <<input, blockPc, blockOut, attrOut, againPc, againOut>>

\* lib.rs:54: `#[$crate::derive($crate::diesel_new!)]`.
Derive ==
    /\ attrPc = "derive"
    /\ attrItem' = derive(attrItem)
    /\ attrOut' = Append(attrOut, derive(attrItem))
    /\ attrPc' = "diesel_new"
    /\ UNCHANGED <<input, blockPc, blockOut, againPc, againOut>>

\* lib.rs:54, 99-124: `diesel_new! { item }` as invoked by derive.
AttrDieselNew ==
    /\ attrPc = "diesel_new"
    /\ LET r == diesel_new(attrItem) IN
        /\ attrPc' = IF r.ok THEN "done" ELSE "error"
        /\ attrOut' = attrOut \o r.decls
    /\ UNCHANGED <<input, blockPc, blockOut, attrItem, againPc, againOut>>

\* lib.rs:99-124: diesel_new! over the struct a block invocation emitted.
Reapply ==
    /\ blockPc = "done"
    /\ againPc = "idle"
    /\ LET r == diesel_new(blockOut[Len(blockOut)]) IN
        /\ againPc' = IF r.ok THEN "done" ELSE "error"
        /\ againOut' = r.decls
    /\ UNCHANGED <<input, blockPc, blockOut, attrPc, attrItem, attrOut>>

Next ==
    \/ BlockDieselNew
    \/ Apply
    \/ ExpandNewInsertable
    \/ Derive
    \/ AttrDieselNew
    \/ Reapply

Spec == Init /\ [][Next]_vars

----------------------------------------------------------------------------
(* Vocabulary of the properties.                                           *)

Range(s) == {s[i] : i \in 1..Len(s)}

\* The fields of a field list, commas left out.
Fields(body) == SelectSeq(body, IsField)

\* Name and type of every field, in order.
RECURSIVE NamesAndTypes(_)
NamesAndTypes(fs) ==
    IF fs = <<>> THEN <<>>
    ELSE <<<<fs[1].name, fs[1].ty>>>> \o NamesAndTypes(Tail(fs))

\* Attributes and visibility of every field, in order.
RECURSIVE MetaAndVis(_)
MetaAndVis(fs) ==
    IF fs = <<>> THEN <<>>
    ELSE <<<<fs[1].meta, fs[1].vis>>>> \o MetaAndVis(Tail(fs))

\* The last declaration an invocation emitted: the derived struct.
Derived(out) == out[Len(out)]

BlockEnded == blockPc \in {"done", "error"}
AttrEnded == attrPc \in {"done", "error"}
AgainEnded == againPc \in {"done", "error"}

\* The name the naming law gives, written out.
ExpectedName(n) ==
    CASE n = "User" -> "NewUser"
      [] n = "SuperUser" -> "NewSuperUser"
      [] n = "NewUser" -> "NewNewUser"
      [] n = "NewSuperUser" -> "NewNewSuperUser"

IsInsertable(a) == a \in {"derive(Insertable)", InsertableMarker}

NumInsertable(attrs) == Len(SelectSeq(attrs, IsInsertable))

\* The shape the specification calls valid: a first field named id, further
\* fields separated by one comma each, a comma after the last field or not.
ValidShape(body) ==
    /\ body # <<>>
    /\ body[1].kind = "field"
    /\ body[1].name = "id"
    /\ \A i \in 1..(Len(body) - 1) : body[i].kind # body[i + 1].kind

FirstFieldIsId(body) ==
    /\ Fields(body) # <<>>
    /\ Fields(body)[1].name = "id"

SecondFieldIsId(body) ==
    /\ Len(Fields(body)) >= 2
    /\ Fields(body)[2].name = "id"

----------------------------------------------------------------------------
(* C1: whenever diesel_new! accepts a struct, in either invocation, the    *)
(* names and types of the derived struct's fields are those of the input's *)
(* fields with the first one removed, in the same order.                   *)
C1_FieldStripping ==
    /\ blockPc = "done" =>
          NamesAndTypes(Fields(Derived(blockOut).body))
              = Tail(NamesAndTypes(Fields(input.body)))
    /\ attrPc = "done" =>
          NamesAndTypes(Fields(Derived(attrOut).body))
              = Tail(NamesAndTypes(Fields(input.body)))

C1_Witness ==
    /\ blockPc = "done"
    /\ NamesAndTypes(Fields(input.body))
          = << <<"id", "i64">>, <<"name", "String">>, <<"age", "i32">> >>
    /\ NamesAndTypes(Fields(Derived(blockOut).body))
          = << <<"name", "String">>, <<"age", "i32">> >>

(* C2: the derived struct is named New followed directly by the input's    *)
(* name, and the expansion does not look at the names already emitted: the *)
(* block invocation succeeds also after the attribute invocation emitted a *)
(* struct of that very name, and the other way round.                      *)
C2_NamingLaw ==
    /\ blockPc = "done" => Derived(blockOut).name = ExpectedName(input.name)
    /\ attrPc = "done" => Derived(attrOut).name = ExpectedName(input.name)
    /\ againPc = "done" =>
          Derived(againOut).name = ExpectedName(Derived(blockOut).name)
    /\ (attrPc = "done" /\ BlockEnded) => blockPc = "done"
    /\ (blockPc = "done" /\ AttrEnded) => attrPc = "done"

C2_Witness ==
    /\ blockPc = "done"
    /\ attrPc = "done"
    /\ input.name = "SuperUser"
    /\ Derived(blockOut).name = "NewSuperUser"
    /\ Derived(attrOut).name = Derived(blockOut).name

(* C3: a struct with no field, or whose first field is not named id, ends  *)
(* in the compile error and no derived struct is emitted: the block        *)
(* invocation emits nothing, the attribute invocation only the original.   *)
C3_RejectionLaw ==
    ~FirstFieldIsId(input.body) =>
        /\ BlockEnded => (blockPc = "error" /\ blockOut = <<>>)
        /\ AttrEnded => (attrPc = "error" /\ attrOut = <<input>>)

C3_Witness ==
    /\ blockPc = "error"
    /\ attrPc = "error"
    /\ blockOut = <<>>
    /\ attrOut = <<input>>
    /\ input.body = <<nameField, Comma, idField, Comma>>

C5_BlockPassthrough ==
    blockPc = "done" =>
        /\ Len(blockOut) = 2
        /\ blockOut[1] = input

(* C5 as amended: a successful block invocation emits one declaration, the *)
(* derived struct; the original struct is not part of its output.          *)
C5_BlockEmitsDerivedOnly ==
    blockPc = "done" =>
        /\ Len(blockOut) = 1
        /\ blockOut[1].name = ExpectedName(input.name)
        /\ \A i \in 1..Len(blockOut) : blockOut[i].name # input.name

C5_Witness ==
    /\ blockPc = "done"
    /\ Len(blockOut) = 1
    /\ blockOut[1].name = "NewUser"
    /\ Len(Fields(input.body)) = 2

C7_FieldMetadata ==
    blockPc = "done" =>
        LET d == Derived(blockOut)
            inF == Fields(input.body)
            outF == Fields(d.body)
            id == inF[1]
            kept == Range(Tail(inF))
        IN  /\ MetaAndVis(outF) = Tail(MetaAndVis(inF))
            /\ \A a \in Range(id.meta) :
                  (a \notin Range(input.attrs)
                      /\ \A f \in kept : a \notin Range(f.meta))
                  => /\ a \notin Range(d.attrs)
                     /\ \A f \in Range(outF) : a \notin Range(f.meta)
            /\ (id.vis # input.vis /\ \A f \in kept : f.vis # id.vis)
                  => /\ d.vis # id.vis
                     /\ \A f \in Range(outF) : f.vis # id.vis
            /\ (\A f \in kept : f.ty # id.ty)
                  => \A f \in Range(outF) : f.ty # id.ty

C7_Witness ==
    /\ blockPc = "done"
    /\ Fields(input.body) = <<idField, ageField, nameField>>
    /\ MetaAndVis(Fields(Derived(blockOut).body))
          = << << <<>>, "" >>, << <<"doc", "serde(rename)">>, "pub" >> >>

(* C8: the derived struct's attribute list starts with the input's         *)
(* attribute list, unchanged and in order, and its visibility is the       *)
(* input's.                                                                *)
C8_StructMetadata ==
    /\ blockPc = "done" =>
          /\ SubSeq(Derived(blockOut).attrs, 1, Len(input.attrs)) = input.attrs
          /\ Derived(blockOut).vis = input.vis
    /\ attrPc = "done" =>
          /\ SubSeq(Derived(attrOut).attrs, 1, Len(input.attrs)) = input.attrs
          /\ Derived(attrOut).vis = input.vis

C8_Witness ==
    /\ blockPc = "done"
    /\ attrPc = "done"
    /\ input.attrs = <<"doc", "derive(Insertable)">>
    /\ input.vis = "pub"
    /\ Derived(attrOut).vis = "pub"

(* C9: every struct of the valid shape is accepted, with or without a      *)
(* comma after its last field, and a struct whose only field is id yields  *)
(* a derived struct without fields.                                        *)
C9_ValidShapeAccepted ==
    (ValidShape(input.body) /\ BlockEnded) =>
        /\ blockPc = "done"
        /\ Len(Fields(input.body)) = 1 => Derived(blockOut).body = <<>>

(* C10 as stated: diesel_new! never accepts the struct it emitted.         *)
C10_OutputRejected ==
    AgainEnded => (againPc = "error" /\ againOut = <<>>)

(* C10 as amended: diesel_new! rejects the struct it emitted unless the    *)
(* second field of the input is named id; then the emitted struct starts   *)
(* with a field named id and is accepted.                                  *)
C10_OutputRejectedUnlessSecondId ==
    AgainEnded =>
        /\ ~SecondFieldIsId(input.body) => (againPc = "error" /\ againOut = <<>>)
        /\ SecondFieldIsId(input.body) => againPc = "done"

C10_Witness ==
    /\ againPc = "error"
    /\ Len(Fields(input.body)) = 3
    /\ Fields(Derived(blockOut).body)[1].name = "name"

====
